---- MODULE Spec2Model ----
(***************************************************************************)
(* A model of remoulade's Redis rate limiter backend                       *)
(* (src/remoulade/rate_limits/backends/redis.py): the four counter         *)
(* operations add, incr, decr and incr_and_sum, run by concurrent callers  *)
(* against one Redis server.  Every Redis command (WATCH, GET, MGET,       *)
(* SET NX PX, MULTI/SET PX/EXEC, UNWATCH) is one atomic step of the        *)
(* server; what a caller computes between two commands is part of the step *)
(* of the command that precedes it.  Stored values are byte strings, as in *)
(* Redis: SET stores the decimal text of the integer and int() parses it   *)
(* back.  A write to a key (SET, a SET NX that wins, the deletion of an    *)
(* expired key) flags every connection that watches the key, and EXEC on a *)
(* flagged connection is refused (redis.WatchError).  A call that returns  *)
(* False or raises inside the `with` block leaves it while watching: the   *)
(* reset of the pipeline then sends UNWATCH, a round trip of its own,      *)
(* before the call returns.                                                *)
(* The variables trace, last, ledger and scene record history for the      *)
(* properties; the operations never read them.                             *)
(***************************************************************************)
EXTENDS Integers, Sequences, FiniteSets, TLC

\* ------------------------------------------------------------------ bounds
MaxTTL == 2          \* ttl arguments are 1..MaxTTL milliseconds
NCallers == 3        \* callers of the single-key races (N of the spec's tests)

IntBits == 4         \* width standing for the 64 bits of a Redis integer

Callers == 1..NCallers
TTLs == 1..MaxTTL
Keys == {"p", "s1", "s2"}

\* ------------------------------------------------- byte strings and int()
DigitChar == <<"0", "1", "2", "3", "4", "5", "6", "7", "8", "9">>

IsDigit(c) == \E d \in 1..10 : DigitChar[d] = c

DigitVal(c) == (CHOOSE d \in 1..10 : DigitChar[d] = c) - 1

RECURSIVE FormatNat(_)
FormatNat(n) ==
    IF n < 10 THEN <<DigitChar[n + 1]>>
    ELSE Append(FormatNat(n \div 10), DigitChar[(n % 10) + 1])

\* The bytes redis-py sends for an int argument of SET: its decimal text.
Format(n) == IF n < 0 THEN <<"-">> \o FormatNat(-n) ELSE FormatNat(n)

\* The byte 0x0b, the vertical tab, for which a TLA+ string has no escape:
\* the two characters \v stand for that one byte.
VerticalTab == "\\v"

\* The bytes int() skips at both ends: the six ASCII white space bytes.
IsSpace(c) == c \in {" ", "\t", "\n", "\r", "\f", VerticalTab}

\* s without the whitespace at its ends.
RECURSIVE Strip(_)
Strip(s) ==
    IF Len(s) = 0 THEN s
    ELSE IF IsSpace(s[1]) THEN Strip(Tail(s))
    ELSE IF IsSpace(s[Len(s)]) THEN Strip(SubSeq(s, 1, Len(s) - 1))
    ELSE s

\* Digits, with single underscores allowed between two digits.
IsNumeral(s) ==
    /\ Len(s) > 0
    /\ \A i \in 1..Len(s) :
        \/ IsDigit(s[i])
        \/ /\ s[i] = "_"
           /\ 1 < i /\ i < Len(s)
           /\ IsDigit(s[i - 1]) /\ IsDigit(s[i + 1])

RECURSIVE NatOf(_)
NatOf(s) ==
    IF Len(s) = 0 THEN 0
    ELSE NatOf(SubSeq(s, 1, Len(s) - 1)) * 10 + DigitVal(s[Len(s)])

\* The most digits int() converts (sys.int_info.default_max_str_digits of
\* Python 3.11): the sign, the underscores and the white space do not count,
\* leading zeros do.
MaxStrDigits == 4300

\* Whether Python's int() accepts the bytes: whitespace, an optional sign,
\* digits with underscores between them, whitespace, and no more than
\* MaxStrDigits digits.
IsInt(s) ==
    LET t == Strip(s) IN
    /\ Len(t) > 0
    /\ IF t[1] \in {"-", "+"} THEN IsNumeral(Tail(t)) ELSE IsNumeral(t)
    /\ Len(SelectSeq(t, IsDigit)) <= MaxStrDigits

\* int(s) for bytes int() accepts.
IntOf(s) ==
    LET t == Strip(s)
        n == NatOf(SelectSeq(t, IsDigit))
    IN  IF t[1] = "-" THEN 0 - n ELSE n

\* ------------------------------------------------------------------- state
VARIABLES
    store,      \* the Redis keyspace: key -> [present, data, ttl]
    pc,         \* per caller: "idle", or the command its call issues next
    op,         \* per caller: the operation it is in ("none" when idle)
    key,        \* per caller: argument key
    keys,       \* per caller: argument keys, as the set of lists keys() may return
    amount,     \* per caller: argument amount
    maximum,    \* per caller: argument maximum (incr, incr_and_sum)
    minimum,    \* per caller: argument minimum (decr)
    ttl,        \* per caller: argument ttl
    value,      \* per caller: the local variable value
    watching,   \* per caller: the keys its connection WATCHes
    dirty,      \* per caller: the server's CAS flag of its connection
    ret,        \* per caller: what its last call returned
    outcome,    \* per caller: what its call returns once its pipeline is reset
    trace,      \* per caller: the commands of its current attempt, in order
    last,       \* the step just taken, when it ended an attempt or was an add
    ledger,     \* per key: what the calls that returned true add up to
    scene       \* what a race starts from, and whether a key has expired in it

args == <<op, key, keys, amount, maximum, minimum, ttl>>
vars == <<store, pc, op, key, keys, amount, maximum, minimum, ttl, value,
          watching, dirty, ret, outcome, trace, last, ledger, scene>>

Absent == [present |-> FALSE, data |-> <<>>, ttl |-> 0]

EmptyStore == [k \in Keys |-> Absent]

NoEvent ==
    [kind |-> "none", proc |-> 0, op |-> "none", key |-> "none", keys |-> {},
     amount |-> 0, bound |-> 0, ttl |-> 0, value |-> 0, ret |-> "none",
     trace |-> <<>>, store |-> EmptyStore]

\* ------------------------------------------------------- the Redis server
\* (mutant) SET that leaves the expiry of a key that has one.
SetKeepTTL(s, k, v, t) ==
    [s EXCEPT ![k] = [present |-> TRUE, data |-> Format(v),
                      ttl |-> IF s[k].present THEN s[k].ttl ELSE t]]

\* (mutant) SET that also renews the expiry of every other key that exists.
SetRefreshAll(s, k, v, t) ==
    [j \in DOMAIN s |->
        IF j = k THEN [present |-> TRUE, data |-> Format(v), ttl |-> t]
        ELSE IF s[j].present THEN [s[j] EXCEPT !.ttl = t]
        ELSE s[j]]

\* SET key value PX ttl: the value's decimal text, with a fresh expiry.
Set(s, k, v, t) ==
    [s EXCEPT ![k] = [present |-> TRUE, data |-> Format(v), ttl |-> t]]

\* GET key: the bytes, or None (<<>> stands for both None and b"": the code
\* tests only the truth of the reply before int()).
Get(s, k) == IF s[k].present THEN s[k].data ELSE <<>>

\* MGET k1 k2 ...: the replies in the order of the keys.
Mget(s, ks) == [i \in 1..Len(ks) |-> Get(s, ks[i])]

\* (mutant) One version for the whole keyspace: any write flags every
\* connection that watches anything.
TouchAll(d, w, ks) == [q \in DOMAIN d |-> d[q] \/ (ks # {} /\ w[q] # {})]

\* The connections whose CAS flag a write to the keys in ks sets.
Touch(d, w, ks) == [q \in DOMAIN d |-> d[q] \/ (w[q] \cap ks # {})]

\* The keys whose expiry is reached by the next millisecond.
Expiring(s) == {k \in Keys : s[k].present /\ s[k].ttl = 1}

\* One millisecond passes: expiries count down, keys that reach theirs are
\* deleted, and deleting a key flags the connections that watch it.  An
\* expiry is recorded in scene only in the races, which are stated for keys
\* that do not expire.
Tick ==
    /\ \E k \in Keys : store[k].present
    /\ store' = [k \in Keys |->
                    IF ~store[k].present THEN store[k]
                    ELSE IF store[k].ttl = 1 THEN Absent
                    ELSE [store[k] EXCEPT !.ttl = @ - 1]]
    /\ dirty' = Touch(dirty, watching, Expiring(store))
    /\ last' = NoEvent
    /\ ledger' = [k \in Keys |-> IF k \in Expiring(store) THEN 0 ELSE ledger[k]]
    /\ scene' = [scene EXCEPT !.expired = @ \/ (scene.race /\ Expiring(store) # {})]
    /\ UNCHANGED <<pc, args, value, watching, ret, outcome, trace>>

\* ---------------------------------------------------------- call and return
\* A caller enters an operation with its arguments.
Call(p, o, k, ks, a, mx, mn, t) ==
    /\ pc[p] = "idle"
    /\ pc' = [pc EXCEPT ![p] = "watch"]
    /\ op' = [op EXCEPT ![p] = o]
    /\ key' = [key EXCEPT ![p] = k]
    /\ keys' = [keys EXCEPT ![p] = ks]
    /\ amount' = [amount EXCEPT ![p] = a]
    /\ maximum' = [maximum EXCEPT ![p] = mx]
    /\ minimum' = [minimum EXCEPT ![p] = mn]
    /\ ttl' = [ttl EXCEPT ![p] = t]
    /\ ret' = [ret EXCEPT ![p] = "none"]
    /\ trace' = [trace EXCEPT ![p] = <<>>]
    /\ last' = NoEvent
    /\ UNCHANGED <<store, value, watching, dirty, outcome, ledger, scene>>

\* The attempt of p that ends with this step, as recorded in last.
Event(p, kind, r, v, tr) ==
    [kind |-> kind, proc |-> p, op |-> op[p], key |-> key[p], keys |-> keys[p],
     amount |-> amount[p],
     bound |-> IF op[p] = "decr" THEN minimum[p] ELSE maximum[p],
     ttl |-> ttl[p], value |-> v, ret |-> r, trace |-> tr, store |-> store]

\* The call of p ends with r: its locals are gone and its connection watches
\* nothing (EXEC or UNWATCH has released the watch).
Leave(p, r) ==
    /\ pc' = [pc EXCEPT ![p] = "idle"]
    /\ op' = [op EXCEPT ![p] = "none"]
    /\ key' = [key EXCEPT ![p] = "none"]
    /\ keys' = [keys EXCEPT ![p] = {}]
    /\ amount' = [amount EXCEPT ![p] = 0]
    /\ maximum' = [maximum EXCEPT ![p] = 0]
    /\ minimum' = [minimum EXCEPT ![p] = 0]
    /\ ttl' = [ttl EXCEPT ![p] = 0]
    /\ value' = [value EXCEPT ![p] = 0]
    /\ watching' = [watching EXCEPT ![p] = {}]
    /\ ret' = [ret EXCEPT ![p] = r]
    /\ outcome' = [outcome EXCEPT ![p] = "none"]
    /\ trace' = [trace EXCEPT ![p] = <<>>]

\* A command of an attempt, with its key arguments in order
\* and the replies it got (one per key for GET and MGET).
Cmd(c, ks, reply) == [cmd |-> c, keys |-> ks, reply |-> reply]

Range(f) == {f[i] : i \in DOMAIN f}

\* (mutant) The value is stored before the bound is checked.
ReturnAfterSet(p, kind, r, v, tr) ==
    /\ pc' = [pc EXCEPT ![p] = "unwatch"]
    /\ outcome' = [outcome EXCEPT ![p] = r]
    /\ value' = [value EXCEPT ![p] = v]
    /\ trace' = [trace EXCEPT ![p] = tr]
    /\ last' = Event(p, kind, r, v, tr)
    /\ store' = Set(store, key[p], v, ttl[p])
    /\ dirty' = [Touch(dirty, watching, {key[p]}) EXCEPT ![p] = dirty[p]]
    /\ UNCHANGED <<args, watching, ret, ledger, scene>>

\* `return False` (or an exception of int(), r = "error") inside the `with`
\* block: the call has decided, with value as computed, and is about to leave
\* the block; its connection still watches its keys.
Return(p, kind, r, v, tr) ==
    /\ pc' = [pc EXCEPT ![p] = "unwatch"]
    /\ outcome' = [outcome EXCEPT ![p] = r]
    /\ value' = [value EXCEPT ![p] = v]
    /\ trace' = [trace EXCEPT ![p] = tr]
    /\ last' = Event(p, kind, r, v, tr)
    /\ UNCHANGED <<store, args, watching, dirty, ret, ledger, scene>>

\* Leaving `with self.client.pipeline() as pipe` while watching: the reset of
\* the pipeline sends UNWATCH, and then the call returns what it decided.
Unwatch(p) ==
    /\ pc[p] = "unwatch"
    /\ Leave(p, outcome[p])
    /\ dirty' = [dirty EXCEPT ![p] = FALSE]
    /\ last' = Event(p, "return", outcome[p], value[p],
                     Append(trace[p], Cmd("UNWATCH", <<>>, <<>>)))
    /\ UNCHANGED <<store, ledger, scene>>

\* `pipe.get(key) or b"0"`: None and b"" both read as b"0".
OrZero(raw) == IF raw = <<>> THEN <<"0">> ELSE raw

\* (mutant) The maximum taken as exclusive.
ExceedsOrEquals(v, mx) == v >= mx

\* `value > maximum`: the increment is denied.
Exceeds(v, mx) == v > mx

\* `value < minimum`: the decrement is denied.
Below(v, mn) == v < mn

\* (mutant) The attempt reads without a watch.
WatchNothing(p, ks) ==
    /\ watching' = [watching EXCEPT ![p] = {}]
    /\ dirty' = [dirty EXCEPT ![p] = FALSE]
    /\ pc' = [pc EXCEPT ![p] = "get"]
    /\ last' = NoEvent
    /\ UNCHANGED <<store, args, value, ret, outcome, ledger, scene>>

\* WATCH ks on the connection of p: EXEC will fail if one of them changes.
Watch(p, ks) ==
    /\ watching' = [watching EXCEPT ![p] = Range(ks)]
    /\ dirty' = [dirty EXCEPT ![p] = FALSE]
    /\ pc' = [pc EXCEPT ![p] = "get"]
    /\ last' = NoEvent
    /\ UNCHANGED <<store, args, value, ret, outcome, ledger, scene>>

\* What a call that returns True adds to its key.
Signed(o, a) == IF o = "decr" THEN 0 - a ELSE a

\* (mutant) EXEC is never refused.
NoWatchError(p) == FALSE

\* Whether EXEC on the connection of p is refused (redis.WatchError).
WatchError(p) == dirty[p]

\* (mutant) redis.WatchError is not caught: the call raises it.
ExecuteRaises(p) ==
    /\ pc[p] = "exec"
    /\ LET tr == Append(trace[p], Cmd("EXEC", <<key[p]>>, <<>>)) IN
       IF WatchError(p)
       THEN Return(p, "conflict", "error", value[p], tr)
       ELSE /\ store' = Set(store, key[p], value[p], ttl[p])
            /\ ledger' = [ledger EXCEPT ![key[p]] = @ + Signed(op[p], amount[p])]
            /\ UNCHANGED scene
            /\ dirty' = [Touch(dirty, watching, {key[p]}) EXCEPT ![p] = FALSE]
            /\ Leave(p, "true")
            /\ last' = Event(p, "commit", "true", value[p], tr)

\* pipe.multi(); pipe.set(key, value, px=ttl); pipe.execute(): MULTI, SET and
\* EXEC reach the server as one step.  A refused EXEC writes nothing, releases
\* the watch and the loop continues; an accepted one writes and returns True.
Execute(p) ==
    /\ pc[p] = "exec"
    /\ LET tr == Append(trace[p], Cmd("EXEC", <<key[p]>>, <<>>)) IN
       IF WatchError(p)
       THEN /\ pc' = [pc EXCEPT ![p] = "watch"]
            /\ watching' = [watching EXCEPT ![p] = {}]
            /\ dirty' = [dirty EXCEPT ![p] = FALSE]
            /\ trace' = [trace EXCEPT ![p] = <<>>]
            /\ last' = Event(p, "conflict", "none", value[p], tr)
            /\ UNCHANGED <<store, args, value, ret, outcome, ledger, scene>>
       ELSE /\ store' = Set(store, key[p], value[p], ttl[p])
            /\ ledger' = [ledger EXCEPT ![key[p]] = @ + Signed(op[p], amount[p])]
            /\ UNCHANGED scene
            /\ dirty' = [Touch(dirty, watching, {key[p]}) EXCEPT ![p] = FALSE]
            /\ Leave(p, "true")
            /\ last' = Event(p, "commit", "true", value[p], tr)

\* ----------------------------------------------------------------- add
\* (mutant) SET without NX: the key is overwritten and True returned.
add_overwrite(p, K, V, T) ==
    /\ pc[p] = "idle"
    /\ \E k \in K, v \in V, t \in T :
        /\ store' = Set(store, k, v, t)
        /\ ledger' = [ledger EXCEPT ![k] = v]
        /\ dirty' = Touch(dirty, watching, {k})
        /\ ret' = [ret EXCEPT ![p] = "true"]
        /\ last' = [NoEvent EXCEPT !.kind = "add", !.proc = p, !.op = "add",
                                   !.key = k, !.value = v, !.ttl = t,
                                   !.ret = "true", !.store = store]
    /\ UNCHANGED <<pc, args, value, watching, outcome, trace, scene>>

\* client.set(key, value, px=ttl, nx=True): one command, no watch.
add(p, K, V, T) ==
    /\ pc[p] = "idle"
    /\ \E k \in K, v \in V, t \in T :
        LET won == ~store[k].present IN
        /\ store' = IF won THEN Set(store, k, v, t) ELSE store
        /\ ledger' = IF won THEN [ledger EXCEPT ![k] = v] ELSE ledger
        /\ dirty' = IF won THEN Touch(dirty, watching, {k}) ELSE dirty
        /\ ret' = [ret EXCEPT ![p] = IF won THEN "true" ELSE "false"]
        /\ last' = [NoEvent EXCEPT !.kind = "add", !.proc = p, !.op = "add",
                                   !.key = k, !.value = v, !.ttl = t,
                                   !.ret = IF won THEN "true" ELSE "false",
                                   !.store = store]
    /\ UNCHANGED <<pc, args, value, watching, outcome, trace, scene>>

\* ----------------------------------------------------------------- incr
incr(p, K, A, M, T) ==
    \E k \in K, a \in A, m \in M, t \in T : Call(p, "incr", k, {}, a, m, 0, t)

incr_watch(p) ==
    /\ pc[p] = "watch" /\ op[p] = "incr"
    /\ Watch(p, <<key[p]>>)
    /\ trace' = [trace EXCEPT ![p] = <<Cmd("WATCH", <<key[p]>>, <<>>)>>]

incr_get(p) ==
    /\ pc[p] = "get" /\ op[p] = "incr"
    /\ LET text == OrZero(Get(store, key[p]))
           tr == Append(trace[p], Cmd("GET", <<key[p]>>, <<Get(store, key[p])>>))
       IN  IF ~IsInt(text) THEN Return(p, "error", "error", value[p], tr)
           ELSE IF Exceeds(IntOf(text) + amount[p], maximum[p])
           THEN Return(p, "deny", "false", IntOf(text) + amount[p], tr)
           ELSE /\ value' = [value EXCEPT ![p] = IntOf(text) + amount[p]]
                /\ pc' = [pc EXCEPT ![p] = "exec"]
                /\ trace' = [trace EXCEPT ![p] = tr]
                /\ last' = NoEvent
                /\ UNCHANGED <<store, args, watching, dirty, ret, outcome, ledger, scene>>

incr_execute(p) == op[p] = "incr" /\ Execute(p)

incr_unwatch(p) == op[p] = "incr" /\ Unwatch(p)

\* ----------------------------------------------------------------- decr
decr(p, K, A, M, T) ==
    \E k \in K, a \in A, m \in M, t \in T : Call(p, "decr", k, {}, a, 0, m, t)

decr_watch(p) ==
    /\ pc[p] = "watch" /\ op[p] = "decr"
    /\ Watch(p, <<key[p]>>)
    /\ trace' = [trace EXCEPT ![p] = <<Cmd("WATCH", <<key[p]>>, <<>>)>>]

decr_get(p) ==
    /\ pc[p] = "get" /\ op[p] = "decr"
    /\ LET text == OrZero(Get(store, key[p]))
           tr == Append(trace[p], Cmd("GET", <<key[p]>>, <<Get(store, key[p])>>))
       IN  IF ~IsInt(text) THEN Return(p, "error", "error", value[p], tr)
           ELSE IF Below(IntOf(text) - amount[p], minimum[p])
           THEN Return(p, "deny", "false", IntOf(text) - amount[p], tr)
           ELSE /\ value' = [value EXCEPT ![p] = IntOf(text) - amount[p]]
                /\ pc' = [pc EXCEPT ![p] = "exec"]
                /\ trace' = [trace EXCEPT ![p] = tr]
                /\ last' = NoEvent
                /\ UNCHANGED <<store, args, watching, dirty, ret, outcome, ledger, scene>>

decr_execute(p) == op[p] = "decr" /\ Execute(p)

decr_unwatch(p) == op[p] = "decr" /\ Unwatch(p)

\* --------------------------------------------------------- incr_and_sum
\* keys is a list, or a callable whose result may differ from call to call:
\* either way the set of the lists one resolution may give.
incr_and_sum(p, K, KS, A, M, T) ==
    \E k \in K, ks \in KS, a \in A, m \in M, t \in T :
        Call(p, "incr_and_sum", k, ks, a, m, 0, t)

\* The replies `if n` keeps: neither None nor b"".
Kept(values) == SelectSeq(values, LAMBDA n : n # <<>>)

RECURSIVE SumInts(_)
SumInts(ns) == IF Len(ns) = 0 THEN 0 ELSE IntOf(Head(ns)) + SumInts(Tail(ns))

\* (mutant) The sum of the replies without the amount.
SumOnly(a, values) == SumInts(Kept(values))

\* `amount + sum(int(n) for n in values if n)`
Total(a, values) == a + SumInts(Kept(values))

\* (mutant) Only the key of the call is watched, not the listed keys.
incr_and_sum_watch_key(p) ==
    /\ pc[p] = "watch" /\ op[p] = "incr_and_sum"
    /\ \E key_list \in keys[p] :
        /\ Watch(p, <<key[p]>>)
        /\ trace' = [trace EXCEPT ![p] =
                        <<Cmd("keys", key_list, <<>>),
                          Cmd("WATCH", <<key[p]>>, <<>>)>>]

\* `key_list = keys(); pipe.watch(key, *key_list)`
incr_and_sum_watch(p) ==
    /\ pc[p] = "watch" /\ op[p] = "incr_and_sum"
    /\ \E key_list \in keys[p] :
        /\ Watch(p, <<key[p]>> \o key_list)
        /\ trace' = [trace EXCEPT ![p] =
                        <<Cmd("keys", key_list, <<>>),
                          Cmd("WATCH", <<key[p]>> \o key_list, <<>>)>>]

\* (mutant) The primary key is read but checked only with the total.
incr_and_sum_get_unchecked(p) ==
    /\ pc[p] = "get" /\ op[p] = "incr_and_sum"
    /\ LET text == OrZero(Get(store, key[p]))
           tr == Append(trace[p], Cmd("GET", <<key[p]>>, <<Get(store, key[p])>>))
       IN  IF ~IsInt(text) THEN Return(p, "error", "error", value[p], tr)
           ELSE /\ value' = [value EXCEPT ![p] = IntOf(text) + amount[p]]
                /\ pc' = [pc EXCEPT ![p] = "mget"]
                /\ trace' = [trace EXCEPT ![p] = tr]
                /\ last' = NoEvent
                /\ UNCHANGED <<store, args, watching, dirty, ret, outcome, ledger, scene>>

\* The read of the primary key and the check of it alone.
incr_and_sum_get(p) ==
    /\ pc[p] = "get" /\ op[p] = "incr_and_sum"
    /\ LET text == OrZero(Get(store, key[p]))
           tr == Append(trace[p], Cmd("GET", <<key[p]>>, <<Get(store, key[p])>>))
       IN  IF ~IsInt(text) THEN Return(p, "error", "error", value[p], tr)
           ELSE IF Exceeds(IntOf(text) + amount[p], maximum[p])
           THEN Return(p, "deny", "false", IntOf(text) + amount[p], tr)
           ELSE /\ value' = [value EXCEPT ![p] = IntOf(text) + amount[p]]
                /\ pc' = [pc EXCEPT ![p] = "mget"]
                /\ trace' = [trace EXCEPT ![p] = tr]
                /\ last' = NoEvent
                /\ UNCHANGED <<store, args, watching, dirty, ret, outcome, ledger, scene>>

\* (mutant) The list of the first resolution is summed; keys() is not called
\* again.
incr_and_sum_mget_cached(p) ==
    /\ pc[p] = "mget" /\ op[p] = "incr_and_sum"
    /\ LET summed == trace[p][1].keys
           values == Mget(store, summed)
           tr == Append(trace[p], Cmd("MGET", summed, values))
       IN  IF \E i \in 1..Len(Kept(values)) : ~IsInt(Kept(values)[i])
           THEN Return(p, "error", "error", value[p], tr)
           ELSE IF Exceeds(Total(amount[p], values), maximum[p])
           THEN Return(p, "deny", "false", value[p], tr)
           ELSE /\ pc' = [pc EXCEPT ![p] = "exec"]
                /\ trace' = [trace EXCEPT ![p] = tr]
                /\ last' = NoEvent
                /\ UNCHANGED <<store, args, value, watching, dirty, ret, outcome, ledger, scene>>

\* `values = pipe.mget(keys())` and the check of the total.
incr_and_sum_mget(p) ==
    /\ pc[p] = "mget" /\ op[p] = "incr_and_sum"
    /\ \E summed \in keys[p] :
        LET values == Mget(store, summed)
            tr == trace[p] \o <<Cmd("keys", summed, <<>>), Cmd("MGET", summed, values)>>
        IN  IF \E i \in 1..Len(Kept(values)) : ~IsInt(Kept(values)[i])
            THEN Return(p, "error", "error", value[p], tr)
            ELSE IF Exceeds(Total(amount[p], values), maximum[p])
            THEN Return(p, "deny", "false", value[p], tr)
            ELSE /\ pc' = [pc EXCEPT ![p] = "exec"]
                 /\ trace' = [trace EXCEPT ![p] = tr]
                 /\ last' = NoEvent
                 /\ UNCHANGED <<store, args, value, watching, dirty, ret, outcome, ledger, scene>>

incr_and_sum_execute(p) == op[p] = "incr_and_sum" /\ Execute(p)

incr_and_sum_unwatch(p) == op[p] = "incr_and_sum" /\ Unwatch(p)

\* ------------------------------------------------- the general specification
\* Two callers, any operation in any interleaving on the counter "p", whose
\* window also holds "s1", with expiry.
Procs == {1, 2}
AddKeys == {"p", "s1"}
AddValues == {2}
Counters == {"p"}
Amounts == {1, 2}
DecrAmounts == {1, 5}
Maxima == {3}
Minima == {0}
Windows == {{<<"p", "s1">>}}
LongTTLs == {MaxTTL}

General == [race |-> FALSE, maximum |-> 0, fresh |-> TRUE, expired |-> FALSE]

InitWith(P, s0, sc) ==
    /\ store = s0
    /\ pc = [p \in P |-> "idle"]
    /\ op = [p \in P |-> "none"]
    /\ key = [p \in P |-> "none"]
    /\ keys = [p \in P |-> {}]
    /\ amount = [p \in P |-> 0]
    /\ maximum = [p \in P |-> 0]
    /\ minimum = [p \in P |-> 0]
    /\ ttl = [p \in P |-> 0]
    /\ value = [p \in P |-> 0]
    /\ watching = [p \in P |-> {}]
    /\ dirty = [p \in P |-> FALSE]
    /\ ret = [p \in P |-> "none"]
    /\ outcome = [p \in P |-> "none"]
    /\ trace = [p \in P |-> <<>>]
    /\ last = NoEvent
    /\ ledger = [k \in Keys |->
                    IF IsInt(OrZero(Get(s0, k))) THEN IntOf(OrZero(Get(s0, k))) ELSE 0]
    /\ scene = sc

Init == InitWith(Procs, EmptyStore, General)

Next ==
    \/ Tick
    \/ \E p \in Procs :
        \/ add(p, AddKeys, AddValues, TTLs)
        \/ incr(p, Counters, Amounts, Maxima, TTLs)
        \/ incr_watch(p)
        \/ incr_get(p)
        \/ incr_execute(p)
        \/ incr_unwatch(p)
        \/ decr(p, Counters, DecrAmounts, Minima, LongTTLs)
        \/ decr_watch(p)
        \/ decr_get(p)
        \/ decr_execute(p)
        \/ decr_unwatch(p)
        \/ incr_and_sum(p, Counters, Windows, Amounts, Maxima, LongTTLs)
        \/ incr_and_sum_watch(p)
        \/ incr_and_sum_get(p)
        \/ incr_and_sum_mget(p)
        \/ incr_and_sum_execute(p)
        \/ incr_and_sum_unwatch(p)

Spec == Init /\ [][Next]_vars

\* ------------------------------------------------ the race of N incr calls
\* N callers, each calling incr("p", 1, maximum=M, ttl) once, on an absent key.
RaceMaxima == 1..(NCallers - 1)

InitRace ==
    \E m \in RaceMaxima :
        InitWith(Callers, EmptyStore,
                 [race |-> TRUE, maximum |-> m, fresh |-> TRUE, expired |-> FALSE])

race_incr(p) ==
    /\ ret[p] = "none"
    /\ incr(p, {"p"}, {1}, {scene.maximum}, LongTTLs)

NextRace ==
    \/ Tick
    \/ \E p \in Callers :
        \/ race_incr(p)
        \/ incr_watch(p)
        \/ incr_get(p)
        \/ incr_execute(p)
        \/ incr_unwatch(p)

SpecRace == InitRace /\ [][NextRace]_vars

\* ------------------------------------------------- the race of N add calls
\* N callers, each calling add("p", value, ttl) once; the key starts absent or
\* holding a value.
RaceAddValues == {1, 2}

Holding(k, v, t) ==
    [EmptyStore EXCEPT ![k] = [present |-> TRUE, data |-> Format(v), ttl |-> t]]

InitAdd ==
    \E fresh \in BOOLEAN :
        InitWith(Callers,
                 IF fresh THEN EmptyStore ELSE Holding("p", 7, MaxTTL),
                 [race |-> TRUE, maximum |-> 0, fresh |-> fresh, expired |-> FALSE])

race_add(p) ==
    /\ ret[p] = "none"
    /\ add(p, {"p"}, RaceAddValues, TTLs)

NextAdd ==
    \/ Tick
    \/ \E p \in Callers : race_add(p)

SpecAdd == InitAdd /\ [][NextAdd]_vars

\* ------------------------------------------- one caller of incr_and_sum
\* A single caller (no concurrent writer) calling incr_and_sum on "p" with a
\* list of keys, from a store holding some of the keys; keys may expire.
OneCaller == {1}
SeqAmounts == {2, 5}
SeqMaxima == {10}
SeqWindows == {{<<"s1", "s2">>}, {<<"p", "s1">>}, {<<>>}}

\* What a key may hold at the start: nothing, b"" or a number.
Held(v, t) == [present |-> TRUE, data |-> v, ttl |-> t]

SeqStores ==
    {[k \in Keys |-> CASE k = "p" -> hp [] k = "s1" -> h1 [] OTHER -> h2] :
        hp \in {Absent, Held(<<>>, MaxTTL), Held(Format(9), MaxTTL)},
        h1 \in {Absent, Held(<<>>, MaxTTL), Held(Format(4), MaxTTL)},
        h2 \in {Absent, Held(Format(3), MaxTTL)}}

InitSeq == \E s0 \in SeqStores : InitWith(OneCaller, s0, General)

NextSeq ==
    \/ Tick
    \/ \E p \in OneCaller :
        \/ incr_and_sum(p, {"p"}, SeqWindows, SeqAmounts, SeqMaxima, TTLs)
        \/ incr_and_sum_watch(p)
        \/ incr_and_sum_get(p)
        \/ incr_and_sum_mget(p)
        \/ incr_and_sum_execute(p)
        \/ incr_and_sum_unwatch(p)

SpecSeq == InitSeq /\ [][NextSeq]_vars

\* ------------------------------------------- concurrent incr_and_sum calls
\* Two callers of incr_and_sum on "p", with a fixed list that holds "p" and
\* "s1" or only "s1", while add fills the keys.
SumAddKeys == {"p", "s1"}
SumAddValues == {2}
SumWindows == {{<<"p", "s1">>}, {<<"s1">>}}

NextSum ==
    \/ Tick
    \/ \E p \in Procs :
        \/ add(p, SumAddKeys, SumAddValues, LongTTLs)
        \/ incr_and_sum(p, Counters, SumWindows, Amounts, Maxima, LongTTLs)
        \/ incr_and_sum_watch(p)
        \/ incr_and_sum_get(p)
        \/ incr_and_sum_mget(p)
        \/ incr_and_sum_execute(p)
        \/ incr_and_sum_unwatch(p)

SpecSum == Init /\ [][NextSum]_vars

\* ------------------------------------------------ callers on several keys
\* Two callers of incr on "p" or "s2", of decr on "s2" and of incr_and_sum
\* on "p" with the list <<"p", "s1">>: calls on "s2" share no key with it.
KeysCounters == {"p", "s2"}
KeysDecrCounters == {"s2"}
KeysAmounts == {1}
KeysMaxima == {2}
KeysWindows == {{<<"p", "s1">>}}

NextKeys ==
    \/ Tick
    \/ \E p \in Procs :
        \/ incr(p, KeysCounters, KeysAmounts, KeysMaxima, LongTTLs)
        \/ incr_watch(p)
        \/ incr_get(p)
        \/ incr_execute(p)
        \/ incr_unwatch(p)
        \/ decr(p, KeysDecrCounters, KeysAmounts, Minima, LongTTLs)
        \/ decr_watch(p)
        \/ decr_get(p)
        \/ decr_execute(p)
        \/ decr_unwatch(p)
        \/ incr_and_sum(p, Counters, KeysWindows, KeysAmounts, KeysMaxima, LongTTLs)
        \/ incr_and_sum_watch(p)
        \/ incr_and_sum_get(p)
        \/ incr_and_sum_mget(p)
        \/ incr_and_sum_execute(p)
        \/ incr_and_sum_unwatch(p)

SpecKeys == Init /\ [][NextKeys]_vars

\* ------------------------------------------- finitely many calls, fairly
\* Three callers, each making one call of incr, decr or incr_and_sum on "p";
\* a caller inside a call keeps taking its steps.
LiveCallers == {1, 2, 3}
LiveAmounts == {1}
LiveMaxima == {2}

live_call(p) ==
    /\ ret[p] = "none"
    /\ \/ incr(p, Counters, LiveAmounts, LiveMaxima, LongTTLs)
       \/ decr(p, Counters, LiveAmounts, Minima, LongTTLs)
       \/ incr_and_sum(p, Counters, Windows, LiveAmounts, LiveMaxima, LongTTLs)

live_step(p) ==
    \/ incr_watch(p)
    \/ incr_get(p)
    \/ incr_execute(p)
    \/ incr_unwatch(p)
    \/ decr_watch(p)
    \/ decr_get(p)
    \/ decr_execute(p)
    \/ decr_unwatch(p)
    \/ incr_and_sum_watch(p)
    \/ incr_and_sum_get(p)
    \/ incr_and_sum_mget(p)
    \/ incr_and_sum_execute(p)
    \/ incr_and_sum_unwatch(p)

InitLive == InitWith(LiveCallers, EmptyStore, General)

NextLive ==
    \/ Tick
    \/ \E p \in LiveCallers :
        \/ live_call(p)
        \/ live_step(p)

SpecLive ==
    /\ InitLive
    /\ [][NextLive]_vars
    /\ \A p \in LiveCallers : WF_vars(live_step(p))

\* ------------------------------------------ keys holding something else
\* One caller of incr, decr and incr_and_sum over keys that hold nothing, the
\* empty string, text that is no number, a number, a number in another
\* spelling int() accepts, or a number of more digits than int() converts.
Junk == <<"x">>
JunkAmounts == {1}
JunkMaxima == {2}

\* Text int() reads as 1 and as 10.
Padded == <<" ", "1", "\n">>
Grouped == <<"+", "1", "_", "0">>
Tabbed == <<VerticalTab, "1", VerticalTab>>

\* A number of one digit more than int() converts.
TooLong == [i \in 1..(MaxStrDigits + 1) |-> "1"]

JunkStores ==
    {[k \in Keys |-> CASE k = "p" -> hp [] k = "s1" -> h1 [] OTHER -> Absent] :
        hp \in {Absent, Held(<<>>, MaxTTL), Held(Junk, MaxTTL), Held(Format(1), MaxTTL),
                Held(Padded, MaxTTL), Held(Grouped, MaxTTL), Held(Tabbed, MaxTTL),
                Held(TooLong, MaxTTL)},
        h1 \in {Absent, Held(<<>>, MaxTTL), Held(Junk, MaxTTL), Held(Format(1), MaxTTL),
                Held(Padded, MaxTTL), Held(Tabbed, MaxTTL), Held(TooLong, MaxTTL)}}

InitJunk == \E s0 \in JunkStores : InitWith(OneCaller, s0, General)

NextJunk ==
    \/ Tick
    \/ \E p \in OneCaller :
        \/ incr(p, Counters, JunkAmounts, JunkMaxima, TTLs)
        \/ incr_watch(p)
        \/ incr_get(p)
        \/ incr_execute(p)
        \/ incr_unwatch(p)
        \/ decr(p, Counters, JunkAmounts, Minima, TTLs)
        \/ decr_watch(p)
        \/ decr_get(p)
        \/ decr_execute(p)
        \/ decr_unwatch(p)
        \/ incr_and_sum(p, Counters, Windows, JunkAmounts, JunkMaxima, TTLs)
        \/ incr_and_sum_watch(p)
        \/ incr_and_sum_get(p)
        \/ incr_and_sum_mget(p)
        \/ incr_and_sum_execute(p)
        \/ incr_and_sum_unwatch(p)

SpecJunk == InitJunk /\ [][NextJunk]_vars

\* ------------------------------------------------- a callable key list
\* Two callers of incr_and_sum on "p" whose keys argument is a callable that
\* returns <<"p">> or <<"p", "s1">> each time it is called (the window moves
\* with the clock), while add fills "s1".
DynWindows == {{<<"p">>, <<"p", "s1">>}}
DynAddKeys == {"s1"}
DynAddValues == {2}
DynAmounts == {1}

NextDyn ==
    \/ Tick
    \/ \E p \in Procs :
        \/ add(p, DynAddKeys, DynAddValues, LongTTLs)
        \/ incr_and_sum(p, Counters, DynWindows, DynAmounts, Maxima, LongTTLs)
        \/ incr_and_sum_watch(p)
        \/ incr_and_sum_get(p)
        \/ incr_and_sum_mget(p)
        \/ incr_and_sum_execute(p)
        \/ incr_and_sum_unwatch(p)

SpecDyn == Init /\ [][NextDyn]_vars

\* ------------------------------------------- at the end of the int range
\* Python's int has no width and SET stores any text, so the code behaves the
\* same at the end of any range; the signed 64-bit range of a Redis integer
\* is scaled down to IntBits bits here to keep the numbers small.
MinInt == 0 - 2^(IntBits - 1)
MaxInt == 2^(IntBits - 1) - 1

WideAmounts == {1}
WideMaxima == {MaxInt + 1}
WideMinima == {MinInt - 1}
WideWindows == {{<<"p">>}}

WideStores ==
    {[k \in Keys |-> IF k = "p" THEN hp ELSE Absent] :
        hp \in {Absent, Held(Format(MaxInt), MaxTTL), Held(Format(MinInt), MaxTTL)}}

InitWide == \E s0 \in WideStores : InitWith(OneCaller, s0, General)

NextWide ==
    \/ Tick
    \/ \E p \in OneCaller :
        \/ incr(p, Counters, WideAmounts, WideMaxima, LongTTLs)
        \/ incr_watch(p)
        \/ incr_get(p)
        \/ incr_execute(p)
        \/ incr_unwatch(p)
        \/ decr(p, Counters, WideAmounts, WideMinima, LongTTLs)
        \/ decr_watch(p)
        \/ decr_get(p)
        \/ decr_execute(p)
        \/ decr_unwatch(p)
        \/ incr_and_sum(p, Counters, WideWindows, WideAmounts, WideMaxima, LongTTLs)
        \/ incr_and_sum_watch(p)
        \/ incr_and_sum_get(p)
        \/ incr_and_sum_mget(p)
        \/ incr_and_sum_execute(p)
        \/ incr_and_sum_unwatch(p)

SpecWide == InitWide /\ [][NextWide]_vars

\* ------------------------------------------------- sustained contention
\* One call of incr on "p" by the victim while the rival keeps calling incr
\* and decr on "p" without end, each call chosen so that it can commit.  The
\* schedule is the unlucky one: the victim's EXEC arrives only after a write
\* of the rival (or an expiry) has flagged its connection.  Every caller
\* keeps taking its steps.
Victim == 1
Rival == 2
StarveAmounts == {1}

victim_call ==
    /\ ret[Victim] = "none"
    /\ incr(Victim, Counters, StarveAmounts, Maxima, TTLs)

victim_step ==
    \/ incr_watch(Victim)
    \/ incr_get(Victim)
    \/ incr_execute(Victim)
    \/ incr_unwatch(Victim)

victim_late_step ==
    \/ incr_watch(Victim)
    \/ incr_get(Victim)
    \/ (dirty[Victim] /\ incr_execute(Victim))

rival_call ==
    \/ /\ IntOf(OrZero(Get(store, "p"))) = 0
       /\ incr(Rival, Counters, StarveAmounts, Maxima, TTLs)
    \/ /\ IntOf(OrZero(Get(store, "p"))) > 0
       /\ decr(Rival, Counters, StarveAmounts, Minima, TTLs)

\* The steps of the rival as the program takes them.
rival_step ==
    \/ incr_watch(Rival)
    \/ incr_get(Rival)
    \/ incr_execute(Rival)
    \/ incr_unwatch(Rival)
    \/ decr_watch(Rival)
    \/ decr_get(Rival)
    \/ decr_execute(Rival)
    \/ decr_unwatch(Rival)

\* The steps of the rival that occur under this schedule: its incr, called
\* on an absent or zero key that only the rival writes, is never denied, so
\* it never leaves through UNWATCH (its decr does, when the key has expired
\* under it).
rival_scheduled_step ==
    \/ incr_watch(Rival)
    \/ incr_get(Rival)
    \/ incr_execute(Rival)
    \/ decr_watch(Rival)
    \/ decr_get(Rival)
    \/ decr_execute(Rival)
    \/ decr_unwatch(Rival)

NextStarve ==
    \/ Tick
    \/ victim_call
    \/ victim_late_step
    \/ rival_call
    \/ rival_scheduled_step

SpecStarve ==
    /\ Init
    /\ [][NextStarve]_vars
    /\ WF_vars(victim_call)
    /\ WF_vars(victim_late_step)
    /\ WF_vars(rival_call \/ rival_scheduled_step)

\* ------------------------------------------------ one window, many keys
\* Two callers of incr_and_sum, each on "p" or "s1", all with the same fixed
\* list <<"p", "s1">> and the same maximum; nothing else writes the keys,
\* which start absent or with counts whose sum is within the maximum.
SharedList == <<"p", "s1">>
SharedAmounts == {0, 2}

SharedStores ==
    {[k \in Keys |-> IF k = "p" THEN hp ELSE Absent] :
        hp \in {Absent, Held(Format(1), MaxTTL)}}

InitShared == \E s0 \in SharedStores : InitWith(Procs, s0, General)

NextShared ==
    \/ Tick
    \/ \E p \in Procs :
        \/ incr_and_sum(p, Range(SharedList), {{SharedList}}, SharedAmounts, Maxima, LongTTLs)
        \/ incr_and_sum_watch(p)
        \/ incr_and_sum_get(p)
        \/ incr_and_sum_mget(p)
        \/ incr_and_sum_execute(p)
        \/ incr_and_sum_unwatch(p)

SpecShared == InitShared /\ [][NextShared]_vars

\* -------------------------------------------- one key between two bounds
\* Two callers of incr(p, a, maximum, ttl) and decr(p, a, minimum, ttl) with
\* minimum <= 0 <= maximum; "p" starts absent or within the bounds and
\* expires.
RangeMaxima == {2}
RangeMinima == {0 - 1}

\* (mutant) Amounts of either sign.
RangeAmountsSigned == {0 - 2, 1}

RangeAmounts == {0, 1, 2}

RangeStores ==
    {[k \in Keys |-> IF k = "p" THEN hp ELSE Absent] :
        hp \in {Absent} \cup
               {Held(Format(v), MaxTTL) :
                    v \in {n \in (0 - 1)..2 :
                            \A mn \in RangeMinima, mx \in RangeMaxima : mn <= n /\ n <= mx}}}

InitRange == \E s0 \in RangeStores : InitWith(Procs, s0, General)

NextRange ==
    \/ Tick
    \/ \E p \in Procs :
        \/ incr(p, Counters, RangeAmounts, RangeMaxima, TTLs)
        \/ incr_watch(p)
        \/ incr_get(p)
        \/ incr_execute(p)
        \/ incr_unwatch(p)
        \/ decr(p, Counters, RangeAmounts, RangeMinima, TTLs)
        \/ decr_watch(p)
        \/ decr_get(p)
        \/ decr_execute(p)
        \/ decr_unwatch(p)

SpecRange == InitRange /\ [][NextRange]_vars

\* ------------------------------------------------------------ properties
\* The value a key counts as: absent (or empty) is 0.
Current(s, k) == IntOf(OrZero(Get(s, k)))

Bounded == {"incr", "decr", "incr_and_sum"}

Committed == last.kind = "commit"
Denied == last.kind = "deny"
Left == last.kind = "return"
Conflicted == last.kind = "conflict"
Added == last.kind = "add"

Returned(r) == {p \in DOMAIN ret : ret[p] = r}

AllReturned == \A p \in DOMAIN pc : pc[p] = "idle" /\ ret[p] # "none"

\* C1. N callers each call incr(k, 1, maximum=M, ttl) once on the absent key
\* k, M < N, nothing else writes k and k does not expire: once all have
\* returned, exactly M have returned true, the other N - M false, and k
\* holds M.
C1_RaceBound ==
    (AllReturned /\ ~scene.expired) =>
        /\ Cardinality(Returned("true")) = scene.maximum
        /\ Cardinality(Returned("false")) = NCallers - scene.maximum
        /\ store["p"].present
        /\ store["p"].data = Format(scene.maximum)

\* All callers have returned, some of them after a refused EXEC would have
\* been possible: M of N returned true with M < N.
C1_Witness ==
    /\ AllReturned /\ ~scene.expired
    /\ scene.maximum < NCallers /\ scene.maximum > 1
    /\ Cardinality(Returned("true")) = scene.maximum
    /\ Cardinality(Returned("false")) >= 1
    /\ Current(store, "p") = scene.maximum

\* C3. add returns true iff its key is absent when the SET NX runs; then the
\* key holds the value with the TTL ttl; when it returns false the store is
\* unchanged.  So of N callers of add on a key that starts absent and does
\* not expire, exactly one returns true.
C3_AddOnlyIfAbsent ==
    /\ Added =>
        /\ ret[last.proc] = last.ret
        /\ last.ret = "true" <=> ~last.store[last.key].present
        /\ last.ret = "true" =>
              store = [last.store EXCEPT ![last.key] =
                          [present |-> TRUE, data |-> Format(last.value),
                           ttl |-> last.ttl]]
        /\ last.ret # "true" => last.ret = "false" /\ store = last.store
    /\ (scene.fresh /\ ~scene.expired) =>
        Cardinality(Returned("true")) =
            IF Returned("true") \cup Returned("false") = {} THEN 0 ELSE 1
    /\ (AllReturned /\ ~scene.expired) =>
        Cardinality(Returned("true")) = IF scene.fresh THEN 1 ELSE 0

\* All N callers of add on the key that started absent have returned, one
\* of them true, and the last one returned false leaving the winner's value.
C3_Witness ==
    /\ AllReturned /\ scene.fresh /\ ~scene.expired
    /\ Added /\ last.ret = "false" /\ store = last.store
    /\ Cardinality(Returned("true")) = 1
    /\ Cardinality(Returned("false")) = NCallers - 1

\* C2. No lost updates: the value a successful incr, decr or incr_and_sum
\* writes is the value its key held immediately before the commit (absent = 0)
\* plus (minus, for decr) its amount; and every key holds what the calls that
\* returned true add up to since it was last absent (an add that returned true
\* counting as its value).
C2_NoLostUpdate ==
    /\ Committed =>
        /\ store[last.key].present
        /\ IsInt(store[last.key].data)
        /\ IntOf(store[last.key].data)
             = Current(last.store, last.key) + Signed(last.op, last.amount)
    /\ \A k \in Keys : IsInt(OrZero(Get(store, k))) /\ Current(store, k) = ledger[k]

\* A commit onto a key holding a value other than 0, while another caller is
\* about to EXEC a value it computed from the value the commit replaced.
C2_Witness ==
    /\ Committed
    /\ last.op \in Bounded
    /\ last.store[last.key].present
    /\ Current(last.store, last.key) # 0
    /\ \E q \in DOMAIN pc :
        /\ q # last.proc /\ pc[q] = "exec" /\ key[q] = last.key /\ dirty[q]
        /\ value[q] = Current(last.store, last.key) + Signed(op[q], amount[q])

\* C4. The value a successful incr (incr_and_sum) stores is <= its maximum and
\* the value a successful decr stores is >= its minimum; the bounds are
\* inclusive: incr is denied only when its new value is > maximum, decr only
\* when its new value is < minimum.
C4_BoundRespected ==
    /\ (Committed /\ last.op \in {"incr", "incr_and_sum"})
            => IntOf(store[last.key].data) <= last.bound
    /\ (Committed /\ last.op = "decr")
            => IntOf(store[last.key].data) >= last.bound
    /\ (Denied /\ last.op = "incr") => last.value > last.bound
    /\ (Denied /\ last.op = "decr") => last.value < last.bound

\* An incr committed a value equal to its maximum.
C4_Witness ==
    /\ Committed /\ last.op = "incr"
    /\ IntOf(store[last.key].data) = last.bound
    /\ ret[last.proc] = "true"

\* C5. A call that returns false has written nothing: the step that denies
\* leaves every key's value, presence and TTL as they were and the call goes
\* on to its UNWATCH only (no retry); the UNWATCH, with which the call returns
\* false, writes nothing either and releases the watch; and the attempt has
\* issued no EXEC.
C5_DenyWritesNothing ==
    /\ Denied =>
        /\ last.op \in Bounded
        /\ store = last.store
        /\ pc[last.proc] = "unwatch"
        /\ outcome[last.proc] = "false"
        /\ ret[last.proc] = "none"
        /\ \A i \in 1..Len(last.trace) : last.trace[i].cmd # "EXEC"
    /\ Left =>
        /\ last.op \in Bounded
        /\ last.ret = "false"
        /\ store = last.store
        /\ pc[last.proc] = "idle"
        /\ ret[last.proc] = "false"
        /\ watching[last.proc] = {}
        /\ ~dirty[last.proc]
        /\ last.trace[Len(last.trace)].cmd = "UNWATCH"
        /\ \A i \in 1..Len(last.trace) : last.trace[i].cmd # "EXEC"
    /\ \A p \in DOMAIN pc :
        pc[p] = "unwatch" => outcome[p] = "false" /\ ret[p] = "none"

\* decr(k, 5, minimum=0, ttl) on a key holding 3 returned false and 3 is stored.
C5_Witness ==
    /\ Left /\ last.op = "decr" /\ last.amount = 5 /\ last.bound = 0
    /\ last.store[last.key].data = <<"3">>
    /\ store[last.key].data = <<"3">>
    /\ ret[last.proc] = "false"

\* C6. A successful incr, decr or incr_and_sum leaves its key with a TTL of
\* exactly its ttl argument, whatever TTL the key had.
C6_TTLReplaced ==
    Committed => store[last.key].present /\ store[last.key].ttl = last.ttl

\* A commit onto a key whose remaining TTL was another one.
C6_Witness ==
    /\ Committed /\ last.op \in Bounded
    /\ last.store[last.key].present
    /\ last.store[last.key].ttl # last.ttl
    /\ store[last.key].ttl = last.ttl

\* The value read by the GET of the attempt tr, or "none".
ReadIn(tr) ==
    IF \E i \in 1..Len(tr) : tr[i].cmd = "GET"
    THEN LET i == CHOOSE i \in 1..Len(tr) : tr[i].cmd = "GET"
         IN  <<IntOf(OrZero(tr[i].reply[1]))>>
    ELSE <<>>

\* C10. A refused EXEC writes nothing and is not reported: the call goes back
\* to WATCH with its watch released and nothing returned; an attempt that has
\* passed its check holds the value computed from the GET of that same attempt
\* (which follows its WATCH); and a caller only ever gets true or false.
C10_ConflictRetried ==
    /\ Conflicted =>
        /\ store = last.store
        /\ pc[last.proc] = "watch"
        /\ ret[last.proc] = "none"
        /\ watching[last.proc] = {}
        /\ trace[last.proc] = <<>>
    /\ \A p \in DOMAIN pc :
        /\ ret[p] \in {"none", "true", "false"}
        /\ outcome[p] \in {"none", "false"}
        /\ pc[p] \in {"mget", "exec"} =>
            /\ trace[p][Len(trace[p])].cmd \in {"GET", "MGET"}
            /\ \E i \in 1..Len(trace[p]) : trace[p][i].cmd = "WATCH"
            /\ ReadIn(trace[p]) = <<value[p] - Signed(op[p], amount[p])>>

\* A refused EXEC whose attempt had read a value the key no longer holds.
C10_Witness ==
    /\ Conflicted
    /\ ReadIn(last.trace) # <<Current(store, last.key)>>
    /\ value[last.proc] # Current(store, last.key) + Signed(last.op, last.amount)

\* The sum of what the keys of the list ks count as, key by key.
RECURSIVE SumCurrent(_, _)
SumCurrent(s, ks) ==
    IF Len(ks) = 0 THEN 0 ELSE Current(s, Head(ks)) + SumCurrent(s, Tail(ks))

\* The sum of what the keys of the set S count as.
RECURSIVE SumOver(_, _)
SumOver(s, S) ==
    IF S = {} THEN 0
    ELSE LET k == CHOOSE k \in S : TRUE IN Current(s, k) + SumOver(s, S \ {k})

Occurrences(ks, k) == Cardinality({i \in 1..Len(ks) : ks[i] = k})

\* The list an attempt summed: the keys of its MGET.
Summed(tr) == tr[CHOOSE i \in 1..Len(tr) : tr[i].cmd = "MGET"].keys

HasCmd(tr, c) == \E i \in 1..Len(tr) : tr[i].cmd = c

\* C7. With no concurrent writer, incr_and_sum(p, keys, amount, maximum, ttl)
\* with a fixed list returns true iff current(p) + amount <= maximum and
\* amount + the sum of the current values of the listed keys <= maximum
\* (absent or empty = 0); on true p holds current(p) + amount with the TTL and
\* nothing else changed, on false the store is unchanged.  With p absent,
\* s1 = 4, s2 = 3 and maximum 10: amount 5 is denied, amount 2 stores p = 2.
C7_SumDecision ==
    /\ (last.op = "incr_and_sum" /\ last.kind \in {"commit", "deny"}) =>
        LET ks == CHOOSE l \in last.keys : TRUE
            cur == Current(last.store, last.key)
            tot == last.amount + SumCurrent(last.store, ks)
            example == /\ ks = <<"s1", "s2">> /\ last.bound = 10
                       /\ ~last.store["p"].present
                       /\ last.store["s1"].data = <<"4">>
                       /\ last.store["s2"].data = <<"3">>
        IN  /\ last.ret \in {"true", "false"}
            /\ IF Denied THEN outcome[last.proc] = last.ret
                         ELSE ret[last.proc] = last.ret
            /\ last.ret = "true" <=>
                  (cur + last.amount <= last.bound /\ tot <= last.bound)
            /\ last.ret = "true" =>
                  store = [last.store EXCEPT ![last.key] =
                              Held(Format(cur + last.amount), last.ttl)]
            /\ last.ret = "false" => store = last.store
            /\ (example /\ last.amount = 5) =>
                  last.ret = "false" /\ ~store["p"].present
            /\ (example /\ last.amount = 2) =>
                  last.ret = "true" /\ store["p"].data = <<"2">>
    /\ (last.op = "incr_and_sum" /\ Left) =>
        /\ last.ret = "false" /\ ret[last.proc] = "false"
        /\ store = last.store

\* The spec's example: p absent, s1 = 4, s2 = 3, maximum 10, amount 5 was
\* denied on the total (after the MGET) and p is still absent.
C7_Witness ==
    /\ Denied /\ last.op = "incr_and_sum"
    /\ last.keys = {<<"s1", "s2">>} /\ last.amount = 5 /\ last.bound = 10
    /\ HasCmd(last.trace, "MGET")
    /\ last.store["s1"].data = <<"4">> /\ last.store["s2"].data = <<"3">>
    /\ ~store["p"].present
    /\ outcome[last.proc] = "false"

SumCommitted == Committed /\ last.op = "incr_and_sum"

\* C8 as stated. After a successful incr_and_sum the new value of p plus the
\* sum of the listed counters other than p is <= maximum.
C8_AsStated ==
    SumCommitted =>
        Current(store, last.key)
          + SumOver(store, Range(Summed(last.trace)) \ {last.key}) <= last.bound

\* C8 amended. After a successful incr_and_sum whose key list is a fixed list
\* that holds p exactly once, the sum of the current values of the listed keys
\* (the new value of p and the other listed counters) is <= maximum.
C8_SumBound ==
    (SumCommitted /\ Cardinality(last.keys) = 1) =>
        LET ks == CHOOSE l \in last.keys : TRUE IN
        Occurrences(ks, last.key) = 1 => SumCurrent(store, ks) <= last.bound

\* A commit with the fixed list <<p, s1>> and s1 holding a value that brings
\* the sum to exactly the maximum.
C8_Witness ==
    /\ SumCommitted /\ last.keys = {<<"p", "s1">>}
    /\ store["s1"].present /\ Current(store, "s1") > 0
    /\ Current(store, "p") + Current(store, "s1") = last.bound

\* C9. An attempt of incr_and_sum whose current(primary) + amount is > maximum
\* ends in a deny that returns false, with no MGET and no second resolution of
\* the keys; an attempt that is past the check of the primary key holds a
\* value <= maximum.
C9_EarlyReject ==
    /\ (last.op = "incr_and_sum" /\ ReadIn(last.trace) # <<>>) =>
        (ReadIn(last.trace)[1] + last.amount > last.bound =>
            /\ Denied \/ Left
            /\ IF Denied THEN outcome[last.proc] = "false"
                         ELSE ret[last.proc] = "false"
            /\ ~HasCmd(last.trace, "MGET")
            /\ Cardinality({i \in 1..Len(last.trace) :
                                last.trace[i].cmd = "keys"}) = 1)
    /\ \A p \in DOMAIN pc :
        (op[p] = "incr_and_sum" /\ pc[p] \in {"mget", "exec"}) =>
            /\ value[p] <= maximum[p]
            /\ pc[p] = "mget" => ~HasCmd(trace[p], "MGET")
    /\ \A p \in DOMAIN pc :
        (op[p] = "incr_and_sum" /\ pc[p] = "unwatch" /\ value[p] > maximum[p]) =>
            ~HasCmd(trace[p], "MGET")

\* A deny on the primary key alone while the sibling s1 holds a value: the
\* attempt's commands are keys(), WATCH and GET only.
C9_Witness ==
    /\ Denied /\ last.op = "incr_and_sum"
    /\ last.value > last.bound
    /\ store["s1"].present
    /\ Len(last.trace) = 3 /\ last.trace[3].cmd = "GET"
    /\ outcome[last.proc] = "false"

\* The keys the attempt of q in progress asked to watch: its key and, for
\* incr_and_sum, the list of its first resolution.
OwnKeys(q) ==
    IF pc[q] \in {"idle", "watch"} THEN {}
    ELSE IF op[q] = "incr_and_sum" THEN {key[q]} \cup Range(trace[q][1].keys)
    ELSE {key[q]}

\* C11. Calls on disjoint keys do not interfere: the connection of a call is
\* flagged only by a step that writes one of the keys its attempt watches (a
\* commit or a winning add of another caller on such a key, or the expiry of
\* such a key), and an EXEC is refused only on a flagged connection; so a
\* call none of whose keys is written by anyone else never retries.
C11_NoInterference ==
    [][\A q \in DOMAIN pc :
        /\ (~dirty[q] /\ dirty'[q]) =>
            \/ /\ last'.kind \in {"commit", "add"} /\ last'.ret = "true"
               /\ last'.proc # q
               /\ last'.key \in OwnKeys(q)
            \/ \E k \in OwnKeys(q) : store[k].present /\ ~store'[k].present
        /\ (last'.kind = "conflict" /\ last'.proc = q) => dirty[q]
      ]_vars

\* A commit on one key while the other caller, past its read of another key
\* and about to EXEC, stays unflagged.
C11_Witness ==
    /\ Committed
    /\ \E q \in DOMAIN pc :
        /\ q # last.proc /\ pc[q] = "exec" /\ ~dirty[q]
        /\ last.key \notin watching[q]
        /\ watching[q] # {}

\* C12. Progress under contention: when each of finitely many callers makes
\* finitely many calls on a shared key and every caller keeps taking its
\* steps, every call that was entered eventually returns True or False.
C12_Progress ==
    \A p \in LiveCallers :
        (pc[p] # "idle") ~> (pc[p] = "idle" /\ ret[p] \in {"true", "false"})

\* An EXEC is refused while another call on the same key has already
\* returned True.
C12_Witness ==
    /\ Conflicted
    /\ \E q \in DOMAIN pc : q # last.proc /\ pc[q] = "idle" /\ ret[q] = "true"

\* The keys an attempt read with GET or MGET.
KeysRead(tr) ==
    UNION {Range(tr[i].keys) : i \in {j \in 1..Len(tr) : tr[j].cmd \in {"GET", "MGET"}}}

\* The key holds something that is not the text of an integer.
Malformed(s, k) == s[k].present /\ ~IsInt(s[k].data)

\* C13 (as stated). An attempt that read a key holding something that is not
\* an integer, the empty string included, ends in an error, neither True nor
\* False, and leaves the store as it was.
C13_AsStated ==
    (/\ last.kind \in {"commit", "deny", "error"}
     /\ \E k \in KeysRead(last.trace) : Malformed(last.store, k))
        => (last.ret = "error" /\ store = last.store)

\* C14. Frame: a step of a call of incr, decr or incr_and_sum either leaves
\* the store as it is, or it is the accepted EXEC that ends the call and sets
\* the call's own key, and nothing else, to the new value with the ttl of the
\* call, both at once; no other key's content, presence or expiry changes.
C14_Frame ==
    [][(pc' # pc) =>
        \/ store' = store
        \/ /\ last'.kind = "commit"
           /\ pc'[last'.proc] = "idle" /\ ret'[last'.proc] = "true"
           /\ store' = [store EXCEPT ![last'.key] =
                            [present |-> TRUE, data |-> Format(last'.value),
                             ttl |-> last'.ttl]]
      ]_vars

\* incr_and_sum has committed on "p" while its sibling "s1" exists, with an
\* expiry other than the one of the call, and is as it was.
C14_Witness ==
    /\ Committed /\ last.op = "incr_and_sum"
    /\ store # last.store
    /\ \E k \in Keys \ {last.key} :
        /\ store[k].present /\ store[k].ttl # last.ttl
        /\ store[k] = last.store[k]
        /\ \E i \in 1..Len(last.trace) :
            last.trace[i].cmd = "MGET" /\ k \in Range(last.trace[i].keys)

\* The keys of the commands c of an attempt.
KeysOf(tr, c) ==
    UNION {Range(tr[i].keys) : i \in {j \in 1..Len(tr) : tr[j].cmd = c}}

\* C15 (as stated). In every attempt of incr_and_sum the keys read for the
\* sum are among the keys the attempt watches, also when the callable returns
\* another list the second time.
C15_AsStated ==
    (last.op = "incr_and_sum" /\ last.kind \in {"commit", "deny", "conflict", "error"})
        => KeysOf(last.trace, "MGET") \subseteq KeysOf(last.trace, "WATCH")

\* The names of the commands of an attempt, in order.
CmdNames(tr) == [i \in 1..Len(tr) |-> tr[i].cmd]

\* The commands tr are those of an attempt on k with the lists of ks, in the
\* order of the code, up to where the attempt stands.
InOrder(tr, k, ks) ==
    /\ CmdNames(tr) = SubSeq(<<"keys", "WATCH", "GET", "keys", "MGET", "EXEC">>, 1, Len(tr))
    /\ Len(tr) >= 1 => tr[1].keys \in ks
    /\ Len(tr) >= 2 => tr[2].keys = <<k>> \o tr[1].keys
    /\ Len(tr) >= 3 => tr[3].keys = <<k>>
    /\ Len(tr) >= 4 => tr[4].keys \in ks
    /\ Len(tr) >= 5 => tr[5].keys = tr[4].keys
    /\ Len(tr) >= 6 => tr[6].keys = <<k>>

\* C16. An attempt of incr_and_sum issues, in this order: keys(), WATCH of
\* the key and that list, GET of the key (and the check of the key alone),
\* keys() again, MGET of that second list (and the check of the total), EXEC.
\* An attempt that reaches EXEC has called keys() exactly twice, the second
\* time after WATCH; an attempt rejected early has called it once; and an
\* attempt that starts, after a refused EXEC too, holds no list yet.
C16_Order ==
    /\ \A p \in DOMAIN pc : op[p] = "incr_and_sum" =>
        /\ InOrder(trace[p], key[p], keys[p])
        /\ Len(trace[p]) = (CASE pc[p] = "watch" -> 0 [] pc[p] = "get" -> 2
                              [] pc[p] = "mget" -> 3
                              [] pc[p] = "unwatch" ->
                                    IF Exceeds(value[p], maximum[p]) THEN 3 ELSE 5
                              [] OTHER -> 5)
    /\ (last.op = "incr_and_sum" /\ last.kind \in {"commit", "deny", "conflict", "error"}) =>
        /\ InOrder(last.trace, last.key, last.keys)
        /\ last.kind \in {"commit", "conflict"} => Len(last.trace) = 6
        /\ last.kind \in {"deny", "error"} => Len(last.trace) \in {3, 5}
        /\ (last.kind = "deny" /\ Exceeds(last.value, last.bound)) => Len(last.trace) = 3

\* An attempt has reached EXEC after its two calls of keys() returned
\* different lists.
C16_Witness ==
    /\ last.op = "incr_and_sum" /\ last.kind \in {"commit", "conflict"}
    /\ Len(last.trace) = 6
    /\ last.trace[1].keys # last.trace[4].keys

\* C17 (as stated). An attempt whose new value, the value read plus the
\* amount (minus it for decr), is outside the signed integer range ends in an
\* error and leaves the store as it was: the value is not stored.
C17_AsStated ==
    (/\ last.kind \in {"commit", "deny", "error"}
     /\ last.op \in {"incr", "decr", "incr_and_sum"}
     /\ last.value \notin MinInt..MaxInt)
        => (last.ret = "error" /\ store = last.store)

\* C18. A call is not sure to end.  In every run of the unlucky schedule,
\* which is a run of the program in which both callers keep taking their
\* steps (weak fairness of the steps of each, as the program takes them), the
\* victim's call of incr is never denied and never returns: its EXEC is
\* refused again and again, without end.  (No incr is ever denied in it, so
\* the schedule leaves out no step the program would take.)
C18_Starvation ==
    /\ WF_vars(victim_step)
    /\ WF_vars(rival_step)
    /\ [](\A p \in {Victim, Rival} : ~(op[p] = "incr" /\ pc[p] = "unwatch"))
    /\ [](ret[Victim] = "none")
    /\ []<>(Conflicted /\ last.proc = Victim)

\* The victim's EXEC has been refused after the rival's calls returned True,
\* and the victim, still in its first call, is back at WATCH.
C18_Witness ==
    /\ Conflicted /\ last.proc = Victim
    /\ pc[Victim] = "watch" /\ ret[Victim] = "none"
    /\ ret[Rival] = "true"
    /\ last.value # IntOf(OrZero(Get(store, "p"))) + last.amount

\* C19. When every call is incr_and_sum with the same fixed list K, a key of
\* K, an amount >= 0 and the same maximum, nothing else writes the keys of K
\* and their sum starts within the maximum, then in every reachable state the
\* sum of the counters of K is <= maximum.
C19_SharedBound ==
    \A m \in Maxima : SumCurrent(store, SharedList) <= m

\* A call on "s1" has committed and brought the sum to the maximum while the
\* other caller, on "p", had read the old values and is about to EXEC.
C19_Witness ==
    /\ SumCommitted /\ last.key = "s1" /\ last.amount > 0
    /\ \A m \in Maxima : SumCurrent(store, SharedList) = m
    /\ \E q \in DOMAIN pc :
        /\ q # last.proc /\ pc[q] = "exec" /\ key[q] = "p" /\ amount[q] > 0
        /\ dirty[q]

\* C20. A key that starts absent or within [minimum, maximum], with
\* minimum <= 0 <= maximum, and is written only by incr(key, a, maximum, ttl)
\* and decr(key, a, minimum, ttl) with a >= 0, and may expire, counts as a
\* value within [minimum, maximum] in every reachable state.  (With amounts
\* below 0 it does not: incr checks only the maximum, decr only the minimum.)
C20_WithinBounds ==
    \A mn \in RangeMinima, mx \in RangeMaxima :
        mn <= Current(store, "p") /\ Current(store, "p") <= mx

\* decr has brought the key from above 0 to the minimum, below 0, while the
\* other caller, inside incr, had read the value it replaced.
C20_Witness ==
    /\ Committed /\ last.op = "decr" /\ last.amount > 0
    /\ \A mn \in RangeMinima : Current(store, "p") = mn /\ mn < 0
    /\ Current(last.store, "p") > 0
    /\ \E q \in DOMAIN pc :
        q # last.proc /\ op[q] = "incr" /\ pc[q] = "exec" /\ dirty[q]

====
